---- MODULE Spec2Model ----
(***************************************************************************)
(* Model of the flash-session store of src/src/utils/flash.ts              *)
(* (createQdlStore): the published fields, the closure state, the two      *)
(* exported operations initialize and startFlashing, and the device and    *)
(* image-worker collaborators they drive.                                  *)
(*                                                                         *)
(* An async function runs synchronously up to its next await.  Each action *)
(* below is one such run: it resumes the function with the outcome of the  *)
(* collaborator call it was suspended on, executes the code up to the next *)
(* await (or the function's end) and issues the call awaited there.        *)
(* The call in flight is held in inflight.                                 *)
(*                                                                         *)
(* Environment: the exported operations are invoked in any order and any   *)
(* number of times (at most MaxCalls), one invocation at a time: a new     *)
(* invocation is made only when the previous one has settled.              *)
(***************************************************************************)
EXTENDS Integers, Sequences, FiniteSets, TLC

\* ---------------------------------------------------------------- bounds
\* Longest manifest the manifest loader returns.
MaxImages == 2
\* Number of invocations of initialize/startFlashing in one process.
MaxCalls == 3

\* ------------------------------------------------------ JavaScript values
\* A value that can be thrown or published: a number, undefined, a string
\* (a sequence of tokens) or an object; n of an object is its numeric
\* `code` property, 0 when it has none.
Num(n) == [t |-> "number", n |-> n, s |-> <<>>]
Undefined == [t |-> "undefined", n |-> 0, s |-> <<>>]
Str(s) == [t |-> "string", n |-> 0, s |-> s]
Obj(name, code) == [t |-> "object", n |-> code, s |-> <<name>>]

\* What evaluating a call on a value of the wrong type throws.
TypeError == Obj("TypeError", 0)

\* String.prototype.startsWith on token sequences.
StartsWith(s, prefix) ==
    /\ Len(s) >= Len(prefix)
    /\ SubSeq(s, 1, Len(prefix)) = prefix

\* ------------------------------------------------------------ enumerations
Step ==
    [INITIALIZING |-> 0, READY |-> 1, CONNECTING |-> 2, DOWNLOADING |-> 3,
     UNPACKING |-> 4, FLASHING |-> 6, ERASING |-> 7, DONE |-> 8]

Error ==
    [UNKNOWN |-> -1, NONE |-> 0, UNRECOGNIZED_DEVICE |-> 1, LOST_CONNECTION |-> 2,
     DOWNLOAD_FAILED |-> 3, CHECKSUM_MISMATCH |-> 4, FLASH_FAILED |-> 5,
     ERASE_FAILED |-> 6, REQUIREMENTS_NOT_MET |-> 7]

\* The property access Error.<name>: undefined for a name the object lacks.
ErrorMember(name) ==
    IF name \in DOMAIN Error THEN Num(Error[name]) ELSE Undefined

\* The values of type ErrorValue.
ErrorValue == {Num(Error[k]) : k \in DOMAIN Error}

\* ------------------------------------------------------------------ slots
Slots == {"a", "b"}

\* A value getActiveSlot can report that is neither slot.
BadSlot == "_"

\* ['a', 'b'].includes(currentSlot)
\* (faulty variants: the check is missing; the slots are compared in upper
\* case)
SlotRecognized_NoCheck(currentSlot) == TRUE
SlotRecognized_UpperCase(currentSlot) == currentSlot \in {"A", "B"}
SlotRecognized(currentSlot) == currentSlot \in {"a", "b"}

\* currentSlot === 'a' ? 'b' : 'a'
\* (faulty variant: the current slot is targeted)
OtherSlot_Same(currentSlot) == currentSlot
OtherSlot(currentSlot) == IF currentSlot = "a" THEN "b" ELSE "a"

\* `${image.name}_${otherSlot}`
PartitionName(name, slot) == name \o "_" \o slot

\* `xbl_${currentSlot}`
\* (faulty variant: another partition of the current slot is erased)
BootloaderPartition_Other(currentSlot) == PartitionName("boot", currentSlot)
BootloaderPartition(currentSlot) == PartitionName("xbl", currentSlot)

\* ---------------------------------------------------------------- images
\* The images a release manifest lists, in manifest order; a manifest is a
\* prefix of it.
ReleaseImages == <<"xbl", "boot", "system", "abl">>

Manifests == {SubSeq(ReleaseImages, 1, n) : n \in 0..MaxImages}

ImageNames == {ReleaseImages[i] : i \in 1..Len(ReleaseImages)}

\* The partitions of the device: every image in both slots, and userdata.
SlotPartitions(slot) == {PartitionName(n, slot) : n \in ImageNames}

DevicePartitions == SlotPartitions("a") \cup SlotPartitions("b") \cup {"userdata"}

\* ------------------------------------------------------------- the state
VARIABLES
    step, message, progress, error, connected, serial, onContinue, onRetry,
    manifest, imageWorker,
    pc, idx, currentSlot, inflight,
    devActive, devPart,
    trace, failure, calls,
    capable,
    report,
    wData,
    eraseLog,
    connectLog

store == <<step, message, progress, error, connected, serial, onContinue, onRetry>>
closure == <<manifest, imageWorker>>
control == <<pc, idx, currentSlot, inflight>>
device == <<devActive, devPart>>
history == <<trace, failure, calls>>
vars == <<store, closure, control, device, history, capable, report, wData, eraseLog, connectLog>>

Null == "null"

\* The value handleError stores in onRetry: the function
\* () => () => window.location.reload(), which returns the reloading
\* function when it is called.
Reload == "() => () => window.location.reload()"

\* progress is published as a float; the model holds it in hundredths.
Frac(num, den) == (num * 100) \div den

NoCall == [op |-> "none", arg |-> ""]
Call(op, arg) == [op |-> op, arg |-> arg]
Event(call, ev) == [op |-> call.op, arg |-> call.arg, ev |-> ev]
NoFailure == [op |-> "none", arg |-> "", err |-> Undefined]

\* startFlashing's locals slotCount, partitions and recognized, before
\* getDevicePartitionsInfo has returned.
NoReport == [slotCount |-> 0, partitions |-> <<>>, recognized |-> FALSE]
Failure(call, err) == [op |-> call.op, arg |-> call.arg, err |-> err]

Init ==
    /\ step = Step.INITIALIZING
    /\ message = <<>>
    /\ progress = Frac(0, 1)
    /\ error = Num(Error.NONE)
    /\ connected = FALSE
    /\ serial = Null
    /\ onContinue = Null
    /\ onRetry = Null
    /\ manifest = <<>>
    /\ imageWorker = Null
    /\ pc = "idle"
    /\ idx = 0
    /\ currentSlot = Null
    /\ inflight = NoCall
    /\ devActive \in Slots \cup {BadSlot}
    /\ devPart = [p \in DevicePartitions |-> "intact"]
    /\ trace = <<>>
    /\ failure = NoFailure
    /\ calls = 0
    /\ capable \in BOOLEAN
    /\ report = NoReport
    /\ wData = <<>>
    /\ eraseLog = <<>>
    /\ connectLog = <<>>

\* ------------------------------------------------------- common fragments
\* The running function settles (returns or rejects): nothing is in flight.
Settle ==
    /\ pc' = "idle"
    /\ inflight' = NoCall

\* The running function reaches `await <call>` at site `site`.
Await(site, call) ==
    /\ pc' = site
    /\ inflight' = call

\* The call in flight completed with `ev`; then `calls` are issued in turn.
Logged(ev, issued) ==
    trace' = Append(trace, Event(inflight, ev)) \o [i \in 1..Len(issued) |-> Event(issued[i], "call")]

\* const errorCode = err.code || err
ErrorCode(err) ==
    IF err.t = "object" /\ err.n # 0 THEN Num(err.n) ELSE err

\* handleError(err).  Reading err.code of undefined throws a TypeError out
\* of the catch block of startFlashing: nothing is published and the
\* promise of startFlashing rejects.
\* (faulty variant: the reload is stored in onContinue and onRetry cleared)
HandleError_SwapsCallbacks(err) ==
    IF err.t = "undefined"
    THEN UNCHANGED <<error, progress, onContinue, onRetry>>
    ELSE /\ error' = ErrorCode(err)
         /\ progress' = Frac(-1, 1)
         /\ onContinue' = Reload
         /\ onRetry' = Null
HandleError(err) ==
    IF err.t = "undefined"
    THEN UNCHANGED <<error, progress, onContinue, onRetry>>
    ELSE /\ error' = ErrorCode(err)
         /\ progress' = Frac(-1, 1)
         /\ onContinue' = Null
         /\ onRetry' = Reload

\* ---------------------------------------------------------- initialize
\* initialize(worker), up to `await imageWorker.init()`.
Initialize ==
    /\ pc = "idle"
    /\ calls < MaxCalls
    /\ calls' = calls + 1
    /\ imageWorker' = "worker"
    /\ failure' = NoFailure
    /\ IF ~capable
       THEN /\ error' = ErrorMember("REQUIREMENTS_NOT_MET")
            /\ Settle
            /\ trace' = <<>>
       ELSE /\ Await("init", Call("init", ""))
            /\ trace' = <<Event(Call("init", ""), "call")>>
            /\ UNCHANGED error
    /\ UNCHANGED <<step, message, progress, connected, serial, onContinue, onRetry>>
    /\ UNCHANGED <<manifest, idx, currentSlot, device, capable, report, wData, eraseLog, connectLog>>

\* The catch block of initialize.
InitializeCatch(cause) ==
    /\ error' = ErrorMember("UNKNOWN")
    /\ Settle
    /\ failure' = Failure(inflight, cause)
    /\ UNCHANGED <<step, message, progress, connected, serial, onContinue, onRetry>>
    /\ UNCHANGED <<imageWorker, idx, currentSlot, device, calls, capable, report, wData, eraseLog, connectLog>>

\* imageWorker.init() settled; on success `await download(...)`.
InitDone ==
    /\ pc = "init"
    /\ \/ /\ Await("download", Call("download", "release"))
          /\ Logged("ok", <<Call("download", "release")>>)
          /\ UNCHANGED <<store, closure, idx, currentSlot, device, failure, calls, capable, report, wData, eraseLog, connectLog>>
       \/ /\ InitializeCatch(Obj("Error", 0))
          /\ Logged("fail", <<>>)
          /\ UNCHANGED manifest

\* download(...) settled; on success `await blob.text()`.
ManifestDownloadDone ==
    /\ pc = "download"
    /\ \/ /\ Await("text", Call("text", "release"))
          /\ Logged("ok", <<Call("text", "release")>>)
          /\ UNCHANGED <<store, closure, idx, currentSlot, device, failure, calls, capable, report, wData, eraseLog, connectLog>>
       \/ /\ InitializeCatch(Obj("Error", 0))
          /\ Logged("fail", <<>>)
          /\ UNCHANGED manifest

\* manifest.length === 0
\* (faulty variant: the length is not tested)
ManifestEmpty_Ignored(m) == FALSE
ManifestEmpty(m) == Len(m) = 0

\* blob.text() settled; on success createManifest(text) either throws or
\* returns a manifest, which is assigned before its length is tested.
ManifestTextDone ==
    /\ pc = "text"
    /\ \/ \E m \in Manifests :
            /\ manifest' = m
            /\ Logged("ok", <<>>)
            /\ IF ManifestEmpty(m)
               THEN InitializeCatch(Str(<<"Manifest is empty">>))
               ELSE /\ step' = Step.READY
                    /\ Settle
                    /\ UNCHANGED <<message, progress, error, connected, serial, onContinue, onRetry>>
                    /\ UNCHANGED <<imageWorker, idx, currentSlot, device, failure, calls, capable, report, wData, eraseLog, connectLog>>
       \/ /\ InitializeCatch(Obj("SyntaxError", 0))
          /\ Logged("fail", <<>>)
          /\ UNCHANGED manifest

\* ------------------------------------------------- device recognition
expectedPartitions ==
    {"ALIGN_TO_128K_1", "ALIGN_TO_128K_2", "ImageFv", "abl", "aop", "apdp", "bluetooth", "boot", "cache",
     "cdt", "cmnlib", "cmnlib64", "ddr", "devcfg", "devinfo", "dip", "dsp", "fdemeta", "frp", "fsc", "fsg",
     "hyp", "keymaster", "keystore", "limits", "logdump", "logfs", "mdtp", "mdtpsecapp", "misc", "modem",
     "modemst1", "modemst2", "msadp", "persist", "qupfw", "rawdump", "sec", "splash", "spunvm", "ssd",
     "sti", "storsec", "system", "systemrw", "toolsfv", "tz", "userdata", "vm-linux", "vm-system", "xbl",
     "xbl_config"}

\* (faulty variants: the partitions are not compared with the allow-list;
\* one allow-listed partition is enough)
isRecognizedDevice_SlotCountOnly(slotCount, partitions) == slotCount = 2
isRecognizedDevice_Some(slotCount, partitions) ==
    slotCount = 2 /\ \E i \in 1..Len(partitions) : partitions[i] \in expectedPartitions
isRecognizedDevice(slotCount, partitions) ==
    IF slotCount # 2
    THEN FALSE
    ELSE IF ~(\A i \in 1..Len(partitions) : partitions[i] \in expectedPartitions)
         THEN FALSE
         ELSE TRUE

\* What getDevicePartitionsInfo can report.
ReportedSlotCounts == {1, 2, 4}

ReportedPartitions ==
    {<<>>, <<"xbl", "boot", "userdata">>, <<"xbl", "recovery">>, <<"bogus">>}

\* qdl.sahara.serial: the empty string stands for a device reporting none.
ReportedSerials == {"", "1a2b3c4d"}

\* ------------------------------------------------------------ the device
\* What issuing a call does to the device at once: a write or an erase
\* starts destroying the partition's previous content.
DevOnCall(call) ==
    IF call.op = "flashBlob" THEN [devPart EXCEPT ![call.arg] = "partial"]
    ELSE IF call.op = "erase" THEN [devPart EXCEPT ![call.arg] = "erased"]
    ELSE devPart

\* ------------------------------------------------------- progress reports
\* The value withProgress publishes when item i of n has completed.
WithProgress(i, n) == Frac(i, n)

\* The value withProgress publishes when the call for item i + 1 of n
\* reports that k halves of the item are done.
WithProgressPartial(i, k, n) == Frac(2 * i + k, 2 * n)

\* progress.set(0), the first statement of a phase.
\* (faulty variant: the phase does not reset the progress)
ResetProgress_Missing == progress
ResetProgress == Frac(0, 1)

\* -------------------------------------------------------- startFlashing
\* The catch block of startFlashing: handleError(err); `cause` records what
\* failed and with which value.
Catch(err, cause) ==
    /\ HandleError(err)
    /\ Settle
    /\ failure' = cause
    /\ UNCHANGED <<closure, idx, currentSlot, devActive, calls, capable, report, wData, eraseLog, connectLog>>

\* if (!imageWorker) throw new Error('ImageWorker not initialized'): Error
\* is the module's enumeration object, so `new Error` throws a TypeError.
WorkerMissing == imageWorker = Null

\* startFlashing(), up to `await qdl.waitForConnect()`.
StartFlashing ==
    /\ pc = "idle"
    /\ calls < MaxCalls
    /\ calls' = calls + 1
    /\ step' = Step.CONNECTING
    /\ Await("waitForConnect", Call("waitForConnect", ""))
    /\ trace' = <<Event(Call("waitForConnect", ""), "call")>>
    /\ failure' = NoFailure
    /\ report' = NoReport
    /\ connectLog' = <<>>
    /\ UNCHANGED <<message, progress, error, connected, serial, onContinue, onRetry>>
    /\ UNCHANGED <<closure, idx, currentSlot, device, capable, wData, eraseLog>>

\* What waitForConnect or getDevicePartitionsInfo can reject with.
ConnectRejections == {Obj("Error", 0), Obj("DOMException", 19), Str(<<"no device">>)}

\* waitForConnect settled; on success `await qdl.getDevicePartitionsInfo()`.
WaitForConnectDone ==
    /\ pc = "waitForConnect"
    /\ \/ /\ Await("getDevicePartitionsInfo", Call("getDevicePartitionsInfo", ""))
          /\ Logged("ok", <<Call("getDevicePartitionsInfo", "")>>)
          /\ UNCHANGED <<store, closure, idx, currentSlot, device, failure, calls, capable, report, wData, eraseLog, connectLog>>
       \/ \E err \in ConnectRejections :
            /\ Catch(err, Failure(inflight, err))
            /\ Logged("fail", <<>>)
            /\ UNCHANGED <<step, message, connected, serial, devPart>>

\* qdl.sahara.serial || 'unknown'
\* (faulty variant: the serial is published as the driver reports it)
SerialOrUnknown_Raw(sn) == IF sn # "" THEN sn ELSE Null
SerialOrUnknown(sn) == IF sn # "" THEN sn ELSE "unknown"

\* What startFlashing publishes when the device is recognized, in the order
\* of its statements.
AcceptOrder == <<"serial", "connected=true", "step=DOWNLOADING">>

\* getDevicePartitionsInfo settled.  A recognized device is published as
\* connected and downloadImages() runs up to its loop.
DevicePartitionsInfoDone ==
    /\ pc = "getDevicePartitionsInfo"
    /\ \/ \E slotCount \in ReportedSlotCounts, partitions \in ReportedPartitions,
             sn \in ReportedSerials :
            LET recognized == isRecognizedDevice(slotCount, partitions) IN
            /\ report' = [slotCount |-> slotCount, partitions |-> partitions,
                          recognized |-> recognized]
            /\ Logged("ok", <<>>)
            /\ IF ~recognized
               THEN /\ error' = ErrorMember("UNRECOGNIZED_DEVICE")
                    /\ Settle
                    /\ UNCHANGED <<step, message, progress, connected, serial, onContinue, onRetry>>
                    /\ UNCHANGED <<closure, idx, currentSlot, device, failure, calls, capable, wData, eraseLog, connectLog>>
               ELSE /\ serial' = SerialOrUnknown(sn)
                    /\ connected' = TRUE
                    /\ step' = Step.DOWNLOADING
                    /\ connectLog' = AcceptOrder
                    /\ UNCHANGED <<message, devPart>>
                    /\ IF WorkerMissing
                       THEN /\ HandleError(TypeError)
                            /\ Settle
                            /\ failure' = Failure(Call("imageWorker", ""), TypeError)
                            /\ UNCHANGED <<closure, idx, currentSlot, devActive, calls, capable, wData, eraseLog>>
                       ELSE /\ progress' = ResetProgress
                            /\ pc' = "downloadImages"
                            /\ inflight' = NoCall
                            /\ idx' = 0
                            /\ UNCHANGED <<error, onContinue, onRetry>>
                            /\ UNCHANGED <<closure, currentSlot, devActive, failure, calls, capable, wData, eraseLog>>
       \/ \E err \in ConnectRejections :
            /\ Catch(err, Failure(inflight, err))
            /\ Logged("fail", <<>>)
            /\ UNCHANGED <<step, message, connected, serial, devPart>>

\* The throw of the catch block of downloadImages.
\* (faulty variant: the wrong code is thrown)
DownloadCatch_Unknown(err) == ErrorMember("UNKNOWN")
DownloadCatch(err) == ErrorMember("DOWNLOAD_FAILED")

\* The throw of the catch block of unpackImages; startsWith is no function
\* of a value that is not a string.
UnpackCatch(err) ==
    IF err.t # "string"
    THEN TypeError
    ELSE IF StartsWith(err.s, <<"Checksum mismatch">>)
         THEN ErrorMember("CHECKSUM_MISMATCH")
         ELSE ErrorMember("UNPACK_FAILED")

\* What a worker call can reject with (Comlink rethrows what the worker threw).
WorkerRejections ==
    {Str(<<"Checksum mismatch", "got 1f expected 2e">>), Str(<<"Error:", "Checksum mismatch">>),
     Str(<<"Could not unpack">>), Obj("Error", 0)}

\* The loop of downloadImages: the next image's download is awaited, or the
\* loop ends, step becomes UNPACKING and unpackImages() runs up to its loop.
DownloadImagesLoop ==
    /\ pc = "downloadImages"
    /\ IF idx < Len(manifest)
       THEN /\ message' = <<"Downloading", manifest[idx + 1]>>
            /\ Await("downloadImage", Call("downloadImage", manifest[idx + 1]))
            /\ trace' = Append(trace, Event(Call("downloadImage", manifest[idx + 1]), "call"))
            /\ UNCHANGED <<step, progress, error, connected, serial, onContinue, onRetry>>
            /\ UNCHANGED <<closure, idx, currentSlot, device, failure, calls, capable, report, wData, eraseLog, connectLog>>
       ELSE /\ step' = Step.UNPACKING
            /\ UNCHANGED <<message, connected, serial, devPart, trace>>
            /\ IF WorkerMissing
               THEN Catch(TypeError, Failure(Call("imageWorker", ""), TypeError))
               ELSE /\ progress' = ResetProgress
                    /\ pc' = "unpackImages"
                    /\ inflight' = NoCall
                    /\ idx' = 0
                    /\ UNCHANGED <<error, onContinue, onRetry>>
                    /\ UNCHANGED <<closure, currentSlot, devActive, failure, calls, capable, report, wData, eraseLog, connectLog>>

\* downloadImage settled.
DownloadImageDone ==
    /\ pc = "downloadImage"
    /\ \/ /\ progress' = WithProgress(idx + 1, Len(manifest))
          /\ idx' = idx + 1
          /\ pc' = "downloadImages"
          /\ inflight' = NoCall
          /\ Logged("ok", <<>>)
          /\ UNCHANGED <<step, message, error, connected, serial, onContinue, onRetry>>
          /\ UNCHANGED <<closure, currentSlot, device, failure, calls, capable, report, wData, eraseLog, connectLog>>
       \/ \E err \in WorkerRejections :
            /\ Catch(DownloadCatch(err), Failure(inflight, err))
            /\ Logged("fail", <<>>)
            /\ UNCHANGED <<step, message, connected, serial, devPart>>

\* The loop of unpackImages: the next image's unpack is awaited, or the loop
\* ends, step becomes FLASHING and flashDevice() runs up to
\* `await qdl.getActiveSlot()`.
UnpackImagesLoop ==
    /\ pc = "unpackImages"
    /\ IF idx < Len(manifest)
       THEN /\ message' = <<"Unpacking", manifest[idx + 1]>>
            /\ Await("unpackImage", Call("unpackImage", manifest[idx + 1]))
            /\ trace' = Append(trace, Event(Call("unpackImage", manifest[idx + 1]), "call"))
            /\ UNCHANGED <<step, progress, error, connected, serial, onContinue, onRetry>>
            /\ UNCHANGED <<closure, idx, currentSlot, device, failure, calls, capable, report, wData, eraseLog, connectLog>>
       ELSE /\ step' = Step.FLASHING
            /\ UNCHANGED <<message, connected, serial, devPart>>
            /\ IF WorkerMissing
               THEN /\ Catch(TypeError, Failure(Call("imageWorker", ""), TypeError))
                    /\ UNCHANGED trace
               ELSE /\ progress' = ResetProgress
                    /\ Await("getActiveSlot", Call("getActiveSlot", ""))
                    /\ trace' = Append(trace, Event(Call("getActiveSlot", ""), "call"))
                    /\ UNCHANGED <<error, onContinue, onRetry>>
                    /\ UNCHANGED <<closure, idx, currentSlot, devActive, failure, calls, capable, report, wData, eraseLog, connectLog>>

\* unpackImage settled.
UnpackImageDone ==
    /\ pc = "unpackImage"
    /\ \/ /\ progress' = WithProgress(idx + 1, Len(manifest))
          /\ idx' = idx + 1
          /\ pc' = "unpackImages"
          /\ inflight' = NoCall
          /\ Logged("ok", <<>>)
          /\ UNCHANGED <<step, message, error, connected, serial, onContinue, onRetry>>
          /\ UNCHANGED <<closure, currentSlot, device, failure, calls, capable, report, wData, eraseLog, connectLog>>
       \/ \E err \in WorkerRejections :
            /\ Catch(UnpackCatch(err), Failure(inflight, err))
            /\ Logged("fail", <<>>)
            /\ UNCHANGED <<step, message, connected, serial, devPart>>

\* The throw of the catch block of flashDevice.
FlashCatch(err) == ErrorMember("FLASH_FAILED")

\* What a device call can reject with.
DeviceRejections == {Obj("Error", 0), Str(<<"transfer error">>)}

\* getActiveSlot settled: an unknown slot is thrown, else the bootloader
\* partition of the current slot is erased.
GetActiveSlotDone ==
    /\ pc = "getActiveSlot"
    /\ \/ /\ Logged("ok", IF SlotRecognized(devActive)
                         THEN <<Call("erase", BootloaderPartition(devActive))>>
                         ELSE <<>>)
          /\ IF ~SlotRecognized(devActive)
             THEN /\ Catch(FlashCatch(Str(<<"Unknown current slot", devActive>>)),
                           Failure(Call("currentSlot", devActive), Str(<<"Unknown current slot", devActive>>)))
                  /\ UNCHANGED <<step, message, connected, serial, devPart>>
             ELSE /\ currentSlot' = devActive
                  /\ Await("erase", Call("erase", BootloaderPartition(devActive)))
                  /\ devPart' = DevOnCall(Call("erase", BootloaderPartition(devActive)))
                  /\ UNCHANGED <<store, closure, idx, devActive, failure, calls, capable, report, wData, eraseLog, connectLog>>
       \/ \E err \in DeviceRejections :
            /\ Catch(FlashCatch(err), Failure(inflight, err))
            /\ Logged("fail", <<>>)
            /\ UNCHANGED <<step, message, connected, serial, devPart>>

\* erase settled; on success the flash loop is entered.
EraseDone ==
    /\ pc = "erase"
    /\ \/ /\ pc' = "flashDevice"
          /\ inflight' = NoCall
          /\ idx' = 0
          /\ Logged("ok", <<>>)
          /\ UNCHANGED <<store, closure, currentSlot, device, failure, calls, capable, report, wData, eraseLog, connectLog>>
       \/ \E err \in DeviceRejections :
            /\ Catch(FlashCatch(err), Failure(inflight, err))
            /\ Logged("fail", <<>>)
            /\ UNCHANGED <<step, message, connected, serial, devPart>>

\* Whether the flash loop has another image to write (else the slot is
\* switched).
\* (faulty variant: the slot is switched before the images are written)
FlashLoopContinues_Never(i, n) == FALSE
FlashLoopContinues(i, n) == i < n

\* The loop of flashDevice: the next image is fetched from the worker, or the
\* loop ends and `await qdl.setActiveSlot(otherSlot)` is reached.
FlashDeviceLoop ==
    /\ pc = "flashDevice"
    /\ IF FlashLoopContinues(idx, Len(manifest))
       THEN /\ Await("getImage", Call("getImage", manifest[idx + 1]))
            /\ trace' = Append(trace, Event(Call("getImage", manifest[idx + 1]), "call"))
            /\ UNCHANGED message
       ELSE /\ message' = <<"Changing slot to", OtherSlot(currentSlot)>>
            /\ Await("setActiveSlot", Call("setActiveSlot", OtherSlot(currentSlot)))
            /\ trace' = Append(trace, Event(Call("setActiveSlot", OtherSlot(currentSlot)), "call"))
    /\ UNCHANGED <<step, progress, error, connected, serial, onContinue, onRetry>>
    /\ UNCHANGED <<closure, idx, currentSlot, device, failure, calls, capable, report, wData, eraseLog, connectLog>>

\* getImage settled; on success `await fileHandle.getFile()`.
GetImageDone ==
    /\ pc = "getImage"
    /\ \/ /\ Await("getFile", Call("getFile", manifest[idx + 1]))
          /\ Logged("ok", <<Call("getFile", manifest[idx + 1])>>)
          /\ UNCHANGED <<store, closure, idx, currentSlot, device, failure, calls, capable, report, wData, eraseLog, connectLog>>
       \/ \E err \in DeviceRejections :
            /\ Catch(FlashCatch(err), Failure(inflight, err))
            /\ Logged("fail", <<>>)
            /\ UNCHANGED <<step, message, connected, serial, devPart>>

\* getFile settled; on success the image is written to its partition of the
\* other slot.
GetFileDone ==
    /\ pc = "getFile"
    /\ \/ LET partitionName == PartitionName(manifest[idx + 1], OtherSlot(currentSlot)) IN
            /\ message' = <<"Flashing", manifest[idx + 1]>>
            /\ Await("flashBlob", Call("flashBlob", partitionName))
            /\ devPart' = DevOnCall(Call("flashBlob", partitionName))
            /\ Logged("ok", <<Call("flashBlob", partitionName)>>)
            /\ UNCHANGED <<step, progress, error, connected, serial, onContinue, onRetry>>
            /\ UNCHANGED <<closure, idx, currentSlot, devActive, failure, calls, capable, report, wData, eraseLog, connectLog>>
       \/ \E err \in DeviceRejections :
            /\ Catch(FlashCatch(err), Failure(inflight, err))
            /\ Logged("fail", <<>>)
            /\ UNCHANGED <<step, message, connected, serial, devPart>>

\* flashBlob of an image settled.
FlashBlobDone ==
    /\ pc = "flashBlob"
    /\ \/ /\ progress' = WithProgress(idx + 1, Len(manifest))
          /\ devPart' = [devPart EXCEPT ![inflight.arg] = "written"]
          /\ idx' = idx + 1
          /\ pc' = "flashDevice"
          /\ inflight' = NoCall
          /\ Logged("ok", <<>>)
          /\ UNCHANGED <<step, message, error, connected, serial, onContinue, onRetry>>
          /\ UNCHANGED <<closure, currentSlot, devActive, failure, calls, capable, report, wData, eraseLog, connectLog>>
       \/ \E err \in DeviceRejections :
            /\ Catch(FlashCatch(err), Failure(inflight, err))
            /\ Logged("fail", <<>>)
            /\ UNCHANGED <<step, message, connected, serial, devPart>>

\* new TextEncoder().encode(s) for a string of ASCII characters, given as
\* the sequence of its characters: one byte per character, its code.
TextEncode(s) ==
    LET code == [c \in {"A", "C", "E", "M", "O", "R", "S", "T", "_"} |->
                    CASE c = "A" -> 65 [] c = "C" -> 67 [] c = "E" -> 69 [] c = "M" -> 77
                      [] c = "O" -> 79 [] c = "R" -> 82 [] c = "S" -> 83 [] c = "T" -> 84
                      [] c = "_" -> 95]
    IN [i \in 1..Len(s) |-> code[s[i]]]

\* "COMMA_RESET"
ResetMarker == <<"C", "O", "M", "M", "A", "_", "R", "E", "S", "E", "T">>

\* The length the payload of the erase phase is padded to.
PayloadSize == 28

\* new Uint8Array(28 - wData.length).fill(0)
\* (faulty variant: the marker is not padded)
Padding_None(w) == <<>>
Padding(w) == [i \in 1..(PayloadSize - Len(w)) |-> 0]

\* concatUint8Array(arrays): the bytes of the arrays one after the other.
RECURSIVE concatUint8Array(_)
concatUint8Array(arrays) ==
    IF arrays = <<>> THEN <<>> ELSE Head(arrays) \o concatUint8Array(Tail(arrays))

\* The payload eraseDevice builds.
ErasePayload ==
    LET w == TextEncode(ResetMarker) IN concatUint8Array(<<w, Padding(w)>>)

\* The throw of the catch block of eraseDevice.
\* (faulty variant: the code of the flash phase is thrown)
EraseCatch_FlashFailed(err) == ErrorMember("FLASH_FAILED")
EraseCatch(err) == ErrorMember("ERASE_FAILED")

\* setActiveSlot settled; on success flashDevice returns and eraseDevice()
\* runs up to `await qdl.flashBlob("userdata", wData)`.
SetActiveSlotDone ==
    /\ pc = "setActiveSlot"
    /\ \/ /\ devActive' = inflight.arg
          /\ progress' = ResetProgress
          /\ message' = <<"Erasing userdata">>
          /\ wData' = ErasePayload
          /\ eraseLog' = <<"progress=0">>
          /\ Await("flashUserdata", Call("flashBlob", "userdata"))
          /\ devPart' = DevOnCall(Call("flashBlob", "userdata"))
          /\ Logged("ok", <<Call("flashBlob", "userdata")>>)
          /\ UNCHANGED <<step, error, connected, serial, onContinue, onRetry>>
          /\ UNCHANGED <<closure, idx, currentSlot, failure, calls, capable, report, connectLog>>
       \/ \E err \in DeviceRejections :
            /\ Catch(FlashCatch(err), Failure(inflight, err))
            /\ Logged("fail", <<>>)
            /\ UNCHANGED <<step, message, connected, serial, devPart>>

\* flashBlob of userdata settled; on success progress is 0.9 and
\* `await qdl.reset()` is reached.
FlashUserdataDone ==
    /\ pc = "flashUserdata"
    /\ \/ /\ devPart' = [devPart EXCEPT !["userdata"] = "written"]
          /\ progress' = Frac(9, 10)
          /\ eraseLog' = eraseLog \o <<"userdata written", "progress=0.9">>
          /\ message' = <<"Rebooting">>
          /\ Await("reset", Call("reset", ""))
          /\ Logged("ok", <<Call("reset", "")>>)
          /\ UNCHANGED <<step, error, connected, serial, onContinue, onRetry>>
          /\ UNCHANGED <<closure, idx, currentSlot, devActive, failure, calls, capable, report, wData, connectLog>>
       \/ \E err \in DeviceRejections :
            /\ Catch(EraseCatch(err), Failure(inflight, err))
            /\ Logged("fail", <<>>)
            /\ UNCHANGED <<step, message, connected, serial, devPart>>

\* reset settled; on success eraseDevice returns and step becomes DONE.
ResetDone ==
    /\ pc = "reset"
    /\ \/ /\ progress' = Frac(1, 1)
          /\ connected' = FALSE
          /\ eraseLog' = eraseLog \o <<"reset done", "progress=1", "connected=false">>
          /\ step' = Step.DONE
          /\ Settle
          /\ Logged("ok", <<>>)
          /\ UNCHANGED <<message, error, serial, onContinue, onRetry>>
          /\ UNCHANGED <<closure, idx, currentSlot, device, failure, calls, capable, report, wData, connectLog>>
       \/ \E err \in DeviceRejections :
            /\ Catch(EraseCatch(err), Failure(inflight, err))
            /\ Logged("fail", <<>>)
            /\ UNCHANGED <<step, message, connected, serial, devPart>>

\* The call in flight for an image invokes its onProgress callback with a
\* larger fraction than before (half of the item, or all of it), which
\* withProgress maps onto the phase's range and publishes.
ItemProgress ==
    /\ pc \in {"downloadImage", "unpackImage", "flashBlob"}
    /\ \E k \in {1, 2} :
           /\ WithProgressPartial(idx, k, Len(manifest)) > progress
           /\ progress' = WithProgressPartial(idx, k, Len(manifest))
    /\ UNCHANGED <<step, message, error, connected, serial, onContinue, onRetry>>
    /\ UNCHANGED <<closure, control, device, history, capable, report, wData, eraseLog, connectLog>>

\* The process ends (the page is closed or reloaded) while a function is
\* suspended: the call in flight is never resumed.
Terminate ==
    /\ pc \notin {"idle", "terminated"}
    /\ pc' = "terminated"
    /\ UNCHANGED <<store, closure, idx, currentSlot, inflight, device, history, capable, report, wData, eraseLog, connectLog>>

Next ==
    \/ Initialize
    \/ InitDone
    \/ ManifestDownloadDone
    \/ ManifestTextDone
    \/ StartFlashing
    \/ WaitForConnectDone
    \/ DevicePartitionsInfoDone
    \/ DownloadImagesLoop
    \/ DownloadImageDone
    \/ UnpackImagesLoop
    \/ UnpackImageDone
    \/ GetActiveSlotDone
    \/ EraseDone
    \/ FlashDeviceLoop
    \/ GetImageDone
    \/ GetFileDone
    \/ FlashBlobDone
    \/ SetActiveSlotDone
    \/ FlashUserdataDone
    \/ ResetDone
    \/ ItemProgress
    \/ Terminate

Spec == Init /\ [][Next]_vars

TypeOK ==
    /\ step \in {Step[k] : k \in DOMAIN Step}
    /\ connected \in BOOLEAN
    /\ devActive \in Slots \cup {BadSlot}
    /\ calls \in 0..MaxCalls
    /\ idx \in 0..MaxImages
    /\ manifest \in Manifests
    /\ report \in [slotCount : ReportedSlotCounts \cup {0}, partitions : ReportedPartitions,
                    recognized : BOOLEAN]

\* ================================================================ claims
\* The events of the running (or last) invocation that match op and ev.
Events(op, ev) == {i \in 1..Len(trace) : trace[i].op = op /\ trace[i].ev = ev}

\* The calls that modify the device.
ModifyingOps == {"erase", "flashBlob", "setActiveSlot", "reset"}

\* C1: every flashBlob of a firmware image issued by flashDevice targets
\* '<imageName>_<other slot>', where the other slot is b when getActiveSlot
\* returned a and a when it returned b; while such a write is in flight its
\* partition is not one of the device's active slot; setActiveSlot is called
\* with the other slot, and once flashDevice has succeeded the device's
\* active slot is that other slot.
C1_ImageWritesTargetOtherSlot ==
    /\ \A i \in Events("flashBlob", "call") :
         trace[i].arg # "userdata" =>
            /\ currentSlot \in {"a", "b"}
            /\ \E k \in 1..Len(manifest) :
                 trace[i].arg = manifest[k] \o (IF currentSlot = "a" THEN "_b" ELSE "_a")
    /\ (inflight.op = "flashBlob" /\ inflight.arg # "userdata") =>
            /\ devActive = currentSlot
            /\ inflight.arg \notin {n \o "_" \o devActive : n \in ImageNames}
    /\ \A i \in Events("setActiveSlot", "call") :
         /\ currentSlot \in {"a", "b"}
         /\ trace[i].arg = (IF currentSlot = "a" THEN "b" ELSE "a")
    /\ \A i \in Events("setActiveSlot", "ok") :
         /\ devActive # currentSlot
         /\ devActive = trace[i].arg

\* C1 witness: slot b was active, both images were written to _a partitions
\* and the active slot was switched to a.
C1_Witness ==
    /\ currentSlot = "b"
    /\ Len(manifest) = 2
    /\ \E i \in Events("flashBlob", "ok") : trace[i].arg = "boot_a"
    /\ \E i \in Events("setActiveSlot", "ok") : trace[i].arg = "a"

\* C2: when getActiveSlot returned a value other than 'a' or 'b', the
\* invocation has ended with FLASH_FAILED published and has issued no erase,
\* no flashBlob, no setActiveSlot and no reset.
C2_UnknownSlotFailsBeforeAnyWrite ==
    (devActive \notin {"a", "b"} /\ Events("getActiveSlot", "ok") # {}) =>
        /\ pc = "idle"
        /\ error = Num(Error.FLASH_FAILED)
        /\ \A i \in 1..Len(trace) : trace[i].op \notin ModifyingOps

\* C2 witness: getActiveSlot has returned an unknown slot value.
C2_Witness ==
    /\ devActive \notin {"a", "b"}
    /\ Events("getActiveSlot", "ok") # {}
    /\ failure.op = "currentSlot"

\* C3: setActiveSlot is called only after flashBlob has completed
\* successfully for every manifest image and nothing has failed; when the
\* bootloader erase, a getImage, a getFile or an image flashBlob failed,
\* setActiveSlot was never called and FLASH_FAILED is published.
C3_SlotSwitchOnlyAfterAllWrites ==
    /\ \A i \in Events("setActiveSlot", "call") :
         /\ \A j \in 1..i : trace[j].ev # "fail"
         /\ \A k \in 1..Len(manifest) :
              \E j \in 1..i :
                 /\ trace[j] = [op |-> "flashBlob", arg |-> manifest[k] \o "_" \o trace[i].arg, ev |-> "ok"]
    /\ (failure.op \in {"erase", "getImage", "getFile", "flashBlob"} /\ failure.arg # "userdata") =>
         /\ Events("setActiveSlot", "call") = {}
         /\ pc = "idle"
         /\ error = Num(Error.FLASH_FAILED)

\* C3 witness: setActiveSlot was called for a manifest of two images.
C3_Witness ==
    /\ Len(manifest) = 2
    /\ Events("setActiveSlot", "call") # {}
    /\ Cardinality(Events("flashBlob", "ok")) = 2

\* C4 (as claimed): no partition of the slot the device's active-slot pointer
\* designates is erased or partially written.
C4_ActiveSlotUntouched ==
    devActive \in Slots =>
        \A p \in SlotPartitions(devActive) : devPart[p] \notin {"erased", "partial"}

\* C4 (amended): no step, including a failing one or the end of the process,
\* changes a partition of the slot that is active at that step, except that
\* the bootloader partition xbl_<active slot> becomes erased.
C4_OnlyBootloaderOfActiveSlotErased ==
    [][\A n \in ImageNames :
         (devActive \in Slots /\ devPart'[n \o "_" \o devActive] # devPart[n \o "_" \o devActive])
            => (n = "xbl" /\ devPart'[n \o "_" \o devActive] = "erased")]_vars

\* C4 witness: the process ended in the middle of the write of boot_b while
\* slot a was active and its bootloader erased.
C4_Witness ==
    /\ pc = "terminated"
    /\ devActive = "a"
    /\ inflight = Call("flashBlob", "boot_b")
    /\ devPart["xbl_a"] = "erased"
    /\ devPart["boot_b"] = "partial"
    /\ devPart["boot_a"] = "intact"

\* C5: whenever the published error is not NONE, progress is -1, onContinue
\* is null and onRetry is armed.
C5_ErrorHaltsAndArmsRetry ==
    error # Num(Error.NONE) =>
        /\ progress = Frac(-1, 1)
        /\ onContinue = Null
        /\ onRetry # Null

\* C6: the published error is always a member of the error enumeration.
C6_ErrorInTaxonomy == error \in ErrorValue

\* C7: when unpackImage failed, CHECKSUM_MISMATCH is published if the
\* failure message begins with 'Checksum mismatch' and UNPACK_FAILED
\* otherwise, with progress -1 and onRetry armed, and no device call was
\* issued after it.
C7_UnpackFailurePublished ==
    failure.op = "unpackImage" =>
        /\ IF failure.err.t = "string" /\ StartsWith(failure.err.s, <<"Checksum mismatch">>)
           THEN error = Num(Error.CHECKSUM_MISMATCH)
           ELSE error = ErrorMember("UNPACK_FAILED") /\ error \in ErrorValue
        /\ progress = Frac(-1, 1)
        /\ onRetry # Null
        /\ \A i \in 1..Len(trace) : trace[i].op \notin ModifyingOps

\* C8: when downloadImage failed on image k, DOWNLOAD_FAILED is published,
\* the failed download is the last call of the invocation, only the k first
\* images' downloads were issued, step is DOWNLOADING, progress is -1,
\* onContinue is null and onRetry is armed.
C8_DownloadFailureHalts ==
    failure.op = "downloadImage" =>
        /\ pc = "idle"
        /\ error = Num(Error.DOWNLOAD_FAILED)
        /\ step = Step.DOWNLOADING
        /\ progress = Frac(-1, 1)
        /\ onContinue = Null
        /\ onRetry # Null
        /\ trace[Len(trace)] = [op |-> "downloadImage", arg |-> failure.arg, ev |-> "fail"]
        /\ \A i \in 1..Len(trace) :
             trace[i].op \in {"waitForConnect", "getDevicePartitionsInfo", "downloadImage"}
        /\ \E k \in 1..Len(manifest) :
             /\ manifest[k] = failure.arg
             /\ Cardinality(Events("downloadImage", "call")) = k
             /\ Cardinality(Events("downloadImage", "ok")) = k - 1

\* C8 witness: the download of the second of two images failed.
C8_Witness ==
    /\ failure.op = "downloadImage"
    /\ Len(manifest) = 2
    /\ failure.arg = manifest[2]

\* C9: step DONE is published only with error NONE.
C9_DoneImpliesNoError == step = Step.DONE => error = Num(Error.NONE)

\* C10: no step update publishes a value lower than the one published
\* before it.
C10_StepNeverDecreases == [][step' >= step]_vars

\* C11: while the user-data wipe and the reset are in flight, and when one
\* of them has failed, the published step is ERASING; DONE is published
\* only from ERASING.
C11_ErasingWhileWiping ==
    /\ pc \in {"flashUserdata", "reset"} => step = Step.ERASING
    /\ (failure.op = "reset" \/ (failure.op = "flashBlob" /\ failure.arg = "userdata"))
           => step = Step.ERASING

\* C12: startFlashing enters CONNECTING, and so goes on to issue device and
\* image-worker operations, only from a state where step is READY and error
\* is NONE.
C12_StartOnlyFromReady ==
    [][(pc = "idle" /\ pc' = "waitForConnect")
           => (step = Step.READY /\ error = Num(Error.NONE))]_vars

\* C13: once a non-NONE error is published, no further image-worker or
\* device operation is issued, step does not change and error does not
\* return to NONE.
C13_ErrorIsTerminal ==
    [][error # Num(Error.NONE)
           => /\ step' = step
              /\ error' # Num(Error.NONE)
              /\ inflight' \in {inflight, NoCall}]_vars

\* The operations whose order the flashing session fixes.
PhaseOps == {"downloadImage", "unpackImage", "getActiveSlot", "erase", "flashBlob",
             "setActiveSlot", "reset"}

IsPhaseCall(e) == e.ev = "call" /\ e.op \in PhaseOps

\* The calls a complete session over manifest m issues on a device whose
\* active slot is cur, in the order of the phases.
PhaseOrder(m, cur) ==
    [i \in 1..Len(m) |-> Event(Call("downloadImage", m[i]), "call")]
    \o [i \in 1..Len(m) |-> Event(Call("unpackImage", m[i]), "call")]
    \o <<Event(Call("getActiveSlot", ""), "call"),
         Event(Call("erase", "xbl_" \o cur), "call")>>
    \o [i \in 1..Len(m) |->
            Event(Call("flashBlob", m[i] \o "_" \o (IF cur = "a" THEN "b" ELSE "a")), "call")]
    \o <<Event(Call("setActiveSlot", IF cur = "a" THEN "b" ELSE "a"), "call"),
         Event(Call("flashBlob", "userdata"), "call"),
         Event(Call("reset", ""), "call")>>

IsPrefix(s, t) == Len(s) <= Len(t) /\ \A i \in 1..Len(s) : s[i] = t[i]

PhaseSites ==
    {"downloadImages", "downloadImage", "unpackImages", "unpackImage",
     "getActiveSlot", "erase", "flashDevice", "getImage", "getFile", "flashBlob", "setActiveSlot",
     "flashUserdata", "reset"}

\* The step from site p to site q enters a phase.
PhaseEntry(p, q) ==
    <<p, q>> \in {<<"getDevicePartitionsInfo", "downloadImages">>, <<"downloadImages", "unpackImages">>,
                  <<"unpackImages", "getActiveSlot">>, <<"setActiveSlot", "flashUserdata">>}

\* A phase starts with progress 0 and progress decreases within a phase
\* only when the error path sets it to -1.
ProgressStep ==
    /\ PhaseEntry(pc, pc') => progress' = Frac(0, 1)
    /\ (pc \in PhaseSites /\ progress' < progress)
           => \/ PhaseEntry(pc, pc')
              \/ progress' = Frac(-1, 1) /\ pc' = "idle" /\ error' # Num(Error.NONE)

\* C15 (as claimed): progress is 0 at the start of each of the four phases
\* and non-decreasing within a phase until 1 or the -1 of the error path,
\* and a phase that has published 1 does not drop to -1 afterwards.
C15_NoHaltAfterOne ==
    [][/\ ProgressStep
       /\ (pc \in PhaseSites /\ progress = Frac(1, 1)) => progress' # Frac(-1, 1)]_vars

\* C15 (amended): progress is 0 at the start of each of the four phases and
\* decreases within a phase only when the error path sets it to -1, which
\* can also happen after 1 was published.
C15_ProgressMonotoneUntilHalt == [][ProgressStep]_vars

C15_Witness ==
    /\ failure.op = "setActiveSlot"
    /\ progress = Frac(-1, 1)
    /\ Len(manifest) = MaxImages
    /\ Cardinality(Events("flashBlob", "ok")) = MaxImages

\* ------------------------------------------------------- the happy path
\* The report of a device with two slots whose partitions are all on the
\* allow-list.
AllowListed(r) ==
    /\ r.slotCount = 2
    /\ \A i \in 1..Len(r.partitions) : r.partitions[i] \in expectedPartitions

\* The step is none of a failing collaborator call, of a device report that
\* is not allow-listed, of an empty manifest or of the end of the process.
\* (What flash.ts itself throws is no collaborator failure.)
NoFault ==
    /\ failure'.op \in {NoFailure.op, "currentSlot", "imageWorker"}
    /\ pc = "text" => Len(manifest') > 0
    /\ pc' # "terminated"
    /\ report' # NoReport => AllowListed(report')

HappyInit ==
    /\ Init
    /\ capable
    /\ devActive \in Slots

\* initialize is invoked once, startFlashing once READY is published; every
\* collaborator call succeeds.
HappyNext ==
    \/ Initialize /\ step = Step.INITIALIZING /\ NoFault
    \/ InitDone /\ NoFault
    \/ ManifestDownloadDone /\ NoFault
    \/ ManifestTextDone /\ NoFault
    \/ StartFlashing /\ step = Step.READY /\ NoFault
    \/ WaitForConnectDone /\ NoFault
    \/ DevicePartitionsInfoDone /\ NoFault
    \/ DownloadImagesLoop /\ NoFault
    \/ DownloadImageDone /\ NoFault
    \/ UnpackImagesLoop /\ NoFault
    \/ UnpackImageDone /\ NoFault
    \/ GetActiveSlotDone /\ NoFault
    \/ EraseDone /\ NoFault
    \/ FlashDeviceLoop /\ NoFault
    \/ GetImageDone /\ NoFault
    \/ GetFileDone /\ NoFault
    \/ FlashBlobDone /\ NoFault
    \/ SetActiveSlotDone /\ NoFault
    \/ FlashUserdataDone /\ NoFault
    \/ ResetDone /\ NoFault
    \/ ItemProgress /\ NoFault

\* Weak fairness: a call that has succeeded resumes the awaiting function,
\* and the start is requested once the session is READY.
HappySpec == HappyInit /\ [][HappyNext]_vars /\ WF_vars(HappyNext)

\* C16: on the happy path a session that is READY eventually reaches DONE
\* with connected false and progress 1, and error is NONE all along.
C16_HappyPathReachesDone ==
    /\ [](error = Num(Error.NONE))
    /\ (step = Step.READY) ~> (step = Step.DONE /\ ~connected /\ progress = Frac(1, 1))

C16_Witness ==
    /\ step = Step.DONE
    /\ ~connected
    /\ progress = Frac(1, 1)
    /\ error = Num(Error.NONE)
    /\ Len(manifest) = MaxImages
    /\ devActive = OtherSlot(currentSlot)

\* The awaits of initialize.
InitializeSites == {"init", "download", "text"}

\* The worker initialization and the manifest load of the invocation whose
\* events are tr succeeded, and the manifest m it loaded is not empty.
ManifestLoaded(tr, m) ==
    /\ \A op \in InitializeSites : \E i \in 1..Len(tr) : tr[i].op = op /\ tr[i].ev = "ok"
    /\ Len(m) > 0

\* C17: initialize publishes READY exactly when the capability check
\* passes, the worker initialization and the manifest load succeed, and the
\* manifest is not empty.  When the capability check fails it publishes
\* REQUIREMENTS_NOT_MET without calling the image worker or loading the
\* manifest; when the load fails or the manifest is empty it publishes
\* UNKNOWN; in both cases step is left as it was (INITIALIZING).
C17_InitializeOutcome ==
    [][/\ (pc = "idle" /\ pc' \in {"idle", "init"} /\ calls' # calls)
              => IF capable
                 THEN pc' = "init" /\ step' = step /\ error' = error
                 ELSE /\ error' = Num(Error.REQUIREMENTS_NOT_MET)
                      /\ step' = step
                      /\ pc' = "idle" /\ inflight' = NoCall /\ trace' = <<>>
                      /\ manifest' = manifest
       /\ (pc \in InitializeSites /\ pc' = "idle")
              => IF ManifestLoaded(trace', manifest')
                 THEN step' = Step.READY /\ error' = error /\ capable
                 ELSE step' = step /\ error' = Num(Error.UNKNOWN)
       /\ (pc \in InitializeSites \/ pc' \in InitializeSites) /\ step' # step
              => step' = Step.READY /\ ManifestLoaded(trace', manifest') /\ capable]_vars

C17_Witness ==
    /\ pc = "idle"
    /\ step = Step.READY
    /\ error = Num(Error.NONE)
    /\ ManifestLoaded(trace, manifest)
    /\ Len(manifest) = MaxImages

\* The calls startFlashing makes up to the recognition of the device.
ConnectOps == {"waitForConnect", "getDevicePartitionsInfo"}

\* C18: when the device's report is rejected (slotCount is not 2, or a
\* partition is outside the allow-list), the invocation ends at once with
\* UNRECOGNIZED_DEVICE and step still CONNECTING, connected and serial are
\* left as they were (false and unset), and no image-worker download or
\* unpack and no device erase, flashBlob, setActiveSlot or reset is issued.
C18_RejectedDeviceGatesEverything ==
    [][(report = NoReport /\ report' # NoReport /\ ~AllowListed(report'))
           => /\ pc' = "idle" /\ inflight' = NoCall
              /\ error' = Num(Error.UNRECOGNIZED_DEVICE)
              /\ step = Step.CONNECTING /\ step' = step
              /\ \A i \in 1..Len(trace') : trace'[i].op \in ConnectOps
              /\ connected' = connected
              /\ serial' = serial
              /\ devPart' = devPart /\ devActive' = devActive
              /\ calls = 1 => ~connected' /\ serial' = Null]_vars

C18_Witness ==
    /\ report.slotCount = 2
    /\ ~AllowListed(report)
    /\ error = Num(Error.UNRECOGNIZED_DEVICE)
    /\ step = Step.CONNECTING
    /\ ~connected
    /\ serial = Null

\* C19: isRecognizedDevice(slotCount, partitions) is true exactly when
\* slotCount is 2 and every entry of partitions is on the allow-list: an
\* empty list and a subset of the allow-list pass, a list with an entry
\* outside it fails, and any other slotCount fails whatever the partitions.
C19_RecognizedIffTwoSlotsAllowListed ==
    report # NoReport
        => /\ report.recognized
                  <=> /\ report.slotCount = 2
                      /\ {report.partitions[i] : i \in 1..Len(report.partitions)}
                             \subseteq expectedPartitions
           /\ report.slotCount # 2 => ~report.recognized
           /\ (report.slotCount = 2 /\ report.partitions = <<>>) => report.recognized

C19_Witness ==
    /\ report.slotCount = 2
    /\ report.partitions = <<>>
    /\ report.recognized
    /\ connected

\* ------------------------------------------------------------------ the UI
\* Whether the object useQdl() returns is a store: it holds the stores in
\* its fields and has no subscribe method of its own.
QdlIsStore == FALSE

\* The component's `step`, $qdl.step: the subscription to qdl that $qdl
\* stands for throws while the component is created, so that no reactive
\* statement of the component ever runs and step is never assigned.
ComponentStep == IF QdlIsStore THEN Num(step) ELSE Undefined

\* Step.DOWNLOADING <= step && step <= Step.ERASING
InGuardRange(v) == v.t = "number" /\ Step.DOWNLOADING <= v.n /\ v.n <= Step.ERASING

\* Whether beforeUnloadListener is registered: the reactive statement adds
\* it when step is in the range and removes it otherwise.
beforeUnloadGuard == InGuardRange(ComponentStep)

\* C20: the beforeunload guard is installed exactly while the published
\* step is within [DOWNLOADING, ERASING], and so during every in-flight
\* device erase, flashBlob, setActiveSlot and reset.
C20_GuardWhileFlashing ==
    /\ beforeUnloadGuard <=> (Step.DOWNLOADING <= step /\ step <= Step.ERASING)
    /\ inflight.op \in ModifyingOps => beforeUnloadGuard

\* C21: the payload written in the erase phase is exactly 28 bytes, the 11
\* ASCII bytes of COMMA_RESET (67 79 77 77 65 95 82 69 83 69 84) followed
\* by 17 zero bytes, and it is written to the partition userdata, without
\* slot suffix, whichever slot is active.
C21_ErasePayloadIsMarkerPaddedTo28 ==
    pc = "flashUserdata"
        => /\ inflight = Call("flashBlob", "userdata")
           /\ Len(wData) = 28
           /\ SubSeq(wData, 1, 11) = <<67, 79, 77, 77, 65, 95, 82, 69, 83, 69, 84>>
           /\ \A i \in 12..28 : wData[i] = 0
           /\ Cardinality({i \in 1..28 : wData[i] = 0}) = 17
           /\ devPart["userdata"] = "partial"

C21_Witness ==
    /\ pc = "flashUserdata"
    /\ currentSlot = "b"
    /\ devActive = "a"
    /\ Len(wData) = 28

\* What eraseDevice does and publishes, in the order of its statements.
EraseOrder ==
    <<"progress=0", "userdata written", "progress=0.9", "reset done", "progress=1",
      "connected=false">>

\* The userdata write or the reset of the running (or last) invocation
\* failed.
EraseFailed == failure.op = "reset" \/ (failure.op = "flashBlob" /\ failure.arg = "userdata")

\* C22: the erase phase proceeds in the order: userdata write completes,
\* progress 0.9, reset completes, progress 1, connected false; connected
\* becomes false only when the reset has succeeded; a failed userdata write
\* or reset publishes ERASE_FAILED with progress -1, and progress 1 is not
\* published for that phase.
C22_ErasePhaseOrder ==
    /\ [](/\ IsPrefix(eraseLog, EraseOrder)
          /\ pc = "flashUserdata" => eraseLog = SubSeq(EraseOrder, 1, 1) /\ progress = Frac(0, 1)
          /\ pc = "reset"
                 => /\ eraseLog = SubSeq(EraseOrder, 1, 3)
                    /\ progress = Frac(9, 10)
                    /\ devPart["userdata"] = "written"
          /\ EraseFailed
                 => /\ error = Num(Error.ERASE_FAILED)
                    /\ progress = Frac(-1, 1)
                    /\ \A i \in 1..Len(eraseLog) : eraseLog[i] \notin {"progress=1", "connected=false"})
    /\ [][(connected /\ ~connected')
              => /\ pc = "reset"
                 /\ trace'[Len(trace')] = Event(Call("reset", ""), "ok")
                 /\ progress' = Frac(1, 1)
                 /\ eraseLog' = EraseOrder]_vars

C22_Witness ==
    /\ EraseFailed
    /\ failure.op = "reset"
    /\ eraseLog = SubSeq(EraseOrder, 1, 3)
    /\ connected

\* C23: connected becomes true only in the run in which, waitForConnect
\* having succeeded, the device's report is accepted; that run sets serial
\* (the driver's serial, or "unknown") and step DOWNLOADING; and in every
\* state connected implies that serial is set.
C23_ConnectedImpliesSerial ==
    /\ [](connected => serial # Null /\ serial \in (ReportedSerials \ {""}) \cup {"unknown"})
    /\ [][(~connected /\ connected')
              => /\ pc = "getDevicePartitionsInfo"
                 /\ Events("waitForConnect", "ok") # {}
                 /\ AllowListed(report')
                 /\ serial' # Null
                 /\ step = Step.CONNECTING
                 /\ step' = Step.DOWNLOADING
                 /\ connectLog' = <<"serial", "connected=true", "step=DOWNLOADING">>]_vars

C23_Witness ==
    /\ connected
    /\ serial = "unknown"
    /\ step = Step.DOWNLOADING

====
